---- MODULE Spec2Model ----
(***************************************************************************)
(* A model of secrets_manager.py (class SecretsManager): the plaintext     *)
(* directory, the encrypted archive .<project>.secrets, its .backup copy,  *)
(* the stored credential, and the commands that move between them.         *)
(*                                                                         *)
(* The commands run one at a time (one invocation per process), so each    *)
(* command is one action.  Every command's inputs (the answers typed at    *)
(* its prompts, the bytes the random source returns, the step that raises) *)
(* are drawn from small sets.  The credential store is the "Linux and      *)
(* others" branch of _store_password/_get_password.  File mode bits are    *)
(* not tracked.  shutil.rmtree(..., ignore_errors=True) is taken to remove *)
(* the tree.                                                               *)
(***************************************************************************)
EXTENDS Integers, Sequences, FiniteSets, TLC

(***************************************************************************)
(* Bounds of the model.                                                    *)
(***************************************************************************)
\* number of distinct outputs the random source can give to one command
MaxSeed == 1
\* number of archive writes in one behaviour (the archive's timestamps)
MaxClock == 2
\* number of times the user damages the archive file in one behaviour
MaxTamper == 1

(***************************************************************************)
(* Program constants.                                                      *)
(***************************************************************************)
\* secure_random.token_bytes(16): the nonce prefix of every blob
IV_LEN == 16
\* secure_random.token_bytes(32): the salt of an archive
SALT_LEN == 32
\* hashlib.pbkdf2_hmac(..., 32): the key length
KEY_LEN == 32

\* "secrets_manager.hash" as character codes
HASH_FILE == <<115,101,99,114,101,116,115,95,109,97,110,97,103,101,114,46,104,97,115,104>>

\* "README.txt"
README_NAME == <<82,69,65,68,77,69,46,116,120,116>>
\* the text create_secrets writes to README.txt, cut to its first word "Put"
README_TEXT == <<80,117,116>>

Byte == 0..255
SLASH == 47

(***************************************************************************)
(* Bytes and the XOR cipher.                                               *)
(***************************************************************************)
RECURSIVE XorBits(_, _, _)
XorBits(a, b, n) ==
  IF n = 0 THEN 0
  ELSE (((a % 2) + (b % 2)) % 2) + 2 * XorBits(a \div 2, b \div 2, n - 1)

\* a ^ b on two bytes
Xor(a, b) == XorBits(a, b, 8)

\* secure_random.token_bytes(n): the call-th draw of a command whose random
\* source was seeded with seed
token_bytes(seed, call, n) ==
  <<>> \o [i \in 1..n |-> (seed * 101 + call * 53 + i * 11) % 256]

\* password.encode('utf-8'): the passwords of the model are "p1", "p2"
PwBytes(password) ==
  CASE password = "p1" -> <<112, 49>>
    [] password = "p2" -> <<112, 50>>
    [] OTHER -> <<>>

RECURSIVE SumSeq(_)
SumSeq(s) == IF s = <<>> THEN 0 ELSE Head(s) + SumSeq(Tail(s))

\* hashlib.pbkdf2_hmac('sha256', password, salt, 100000, 32): a deterministic
\* function of (password, salt) giving KEY_LEN bytes; PBKDF2 itself is stood
\* in for by a byte mix that differs in every byte when the password differs
derive_key(password, salt) ==
  <<>> \o [i \in 1..KEY_LEN |->
     (SumSeq(PwBytes(password)) * 83 + salt[((i - 1) % Len(salt)) + 1] * 7 + i * 29) % 256]

\* (key * ((len(data) // len(key)) + 1))[:len(data)]
key_extended(key, n) == [i \in 1..n |-> key[((i - 1) % Len(key)) + 1]]

\* _encrypt_data: iv + (data XOR key XOR iv)
encrypt_data(data, key, iv) ==
  iv \o [i \in 1..Len(data) |->
           Xor(Xor(data[i], key_extended(key, Len(data))[i]), iv[((i - 1) % Len(iv)) + 1])]

\* Python's None where bytes are expected: no byte is -1
None == << -1 >>

\* _decrypt_data: None when shorter than the nonce, else the XOR undone
decrypt_data(encrypted_data, key) ==
  IF Len(encrypted_data) < IV_LEN THEN None
  ELSE LET iv == SubSeq(encrypted_data, 1, IV_LEN)
           encrypted == SubSeq(encrypted_data, IV_LEN + 1, Len(encrypted_data))
       IN <<>> \o [i \in 1..Len(encrypted) |->
             Xor(Xor(encrypted[i], key_extended(key, Len(encrypted))[i]),
                 iv[((i - 1) % Len(iv)) + 1])]

(***************************************************************************)
(* base64: a text is a sequence of 6-bit digits, 64 standing for '='.      *)
(***************************************************************************)
PAD == 64

RECURSIVE b64encode(_)
b64encode(bs) ==
  IF Len(bs) = 0 THEN <<>>
  ELSE IF Len(bs) = 1 THEN
    <<bs[1] \div 4, (bs[1] % 4) * 16, PAD, PAD>>
  ELSE IF Len(bs) = 2 THEN
    <<bs[1] \div 4, ((bs[1] % 4) * 16) + (bs[2] \div 16), (bs[2] % 16) * 4, PAD>>
  ELSE
    <<bs[1] \div 4, ((bs[1] % 4) * 16) + (bs[2] \div 16),
      ((bs[2] % 16) * 4) + (bs[3] \div 64), bs[3] % 64>>
    \o b64encode(SubSeq(bs, 4, Len(bs)))

RECURSIVE b64decode(_)
b64decode(t) ==
  IF Len(t) = 0 THEN <<>>
  ELSE IF t[3] = PAD THEN
    <<(t[1] * 4) + (t[2] \div 16)>>
  ELSE IF t[4] = PAD THEN
    <<(t[1] * 4) + (t[2] \div 16), ((t[2] % 16) * 16) + (t[3] \div 4)>>
  ELSE
    <<(t[1] * 4) + (t[2] \div 16), ((t[2] % 16) * 16) + (t[3] \div 4), ((t[3] % 4) * 64) + t[4]>>
    \o b64decode(SubSeq(t, 5, Len(t)))

(***************************************************************************)
(* Paths and directory trees.  A relative path is the sequence of its      *)
(* parts (pathlib.Path.parts), a part a sequence of character codes; a     *)
(* tree maps the paths of its regular files to their bytes.                *)
(***************************************************************************)
P_a == << <<97>> >>
P_a_b == << <<97>>, <<98>> >>
P_readme == << README_NAME >>
P_hash == << HASH_FILE >>

\* the files the user edits, and what the user writes into them
UserPaths == {P_a, P_a_b}
\* "a" is written empty or as "/bc", "a/b" as "c"
Contents(p) == IF p = P_a THEN { <<>>, <<47, 98, 99>> } ELSE { <<99>> }
Passwords == {"p1", "p2"}

EmptyTree == [p \in {} |-> <<>>]
Put(f, p, c) == [q \in (DOMAIN f) \cup {p} |-> IF q = p THEN c ELSE f[q]]
Drop(f, p) == [q \in (DOMAIN f) \ {p} |-> f[q]]

\* q lies in the directory p, or p in the directory q: both cannot be files
IsPrefix(p, q) == Len(p) < Len(q) /\ SubSeq(q, 1, Len(p)) = p
Clash(p, q) == IsPrefix(p, q) \/ IsPrefix(q, p)

\* str(relative_path): the parts joined by "/"
RECURSIVE StrPath(_)
StrPath(p) ==
  IF Len(p) = 0 THEN <<>>
  ELSE IF Len(p) = 1 THEN p[1]
  ELSE p[1] \o <<SLASH>> \o StrPath(Tail(p))

\* os.path.join(secrets_dir, relative_path) seen from secrets_dir: the text
\* split at "/"
RECURSIVE SplitPath(_, _)
SplitPath(s, part) ==
  IF Len(s) = 0 THEN <<part>>
  ELSE IF Head(s) = SLASH THEN <<part>> \o SplitPath(Tail(s), <<>>)
  ELSE SplitPath(Tail(s), Append(part, Head(s)))

ParsePath(s) == SplitPath(s, <<>>)

\* the order of str: code by code, a proper prefix first
RECURSIVE StrLess(_, _)
StrLess(a, b) ==
  IF Len(b) = 0 THEN FALSE
  ELSE IF Len(a) = 0 THEN TRUE
  ELSE IF Head(a) # Head(b) THEN Head(a) < Head(b)
  ELSE StrLess(Tail(a), Tail(b))

\* the order of pathlib.Path: part by part
RECURSIVE PathLess(_, _)
PathLess(p, q) ==
  IF Len(q) = 0 THEN FALSE
  ELSE IF Len(p) = 0 THEN TRUE
  ELSE IF Head(p) # Head(q) THEN StrLess(Head(p), Head(q))
  ELSE PathLess(Tail(p), Tail(q))

\* sorted(paths)
RECURSIVE SortedPaths(_)
SortedPaths(S) ==
  IF S = {} THEN <<>>
  ELSE LET m == CHOOSE p \in S : \A q \in S \ {p} : PathLess(p, q)
       IN <<m>> \o SortedPaths(S \ {m})

\* a walk that does not leave the hash marker out
tracked_all(files) == DOMAIN files

\* [f for f in rglob('*') if f.is_file() and f.name != HASH_FILE]
tracked(files) == {p \in DOMAIN files : p[Len(p)] # HASH_FILE}

\* the files of a tree without the ones the walks leave out
TrackedTree(files) == [p \in tracked(files) |-> files[p]]

(***************************************************************************)
(* The directory hash.  SHA-256 is taken as collision-free: a digest is    *)
(* the byte stream fed to it behind a "#", so two digests are equal        *)
(* exactly when the streams are.                                           *)
(***************************************************************************)
RECURSIVE HashFeed(_, _)
HashFeed(paths, files) ==
  IF Len(paths) = 0 THEN <<>>
  ELSE StrPath(Head(paths)) \o files[Head(paths)] \o HashFeed(Tail(paths), files)

hexdigest(feed) == <<35>> \o feed

IsSpace(c) == c \in {9, 10, 11, 12, 13, 32}

\* str.strip()
RECURSIVE LStrip(_)
LStrip(s) == IF Len(s) > 0 /\ IsSpace(Head(s)) THEN LStrip(Tail(s)) ELSE s

RECURSIVE RStrip(_)
RStrip(s) ==
  IF Len(s) > 0 /\ IsSpace(s[Len(s)]) THEN RStrip(SubSeq(s, 1, Len(s) - 1)) ELSE s

Strip(s) == RStrip(LStrip(s))

\* _calculate_secrets_hash: "" when the directory does not exist
calculate_secrets_hash(d) ==
  IF d.kind = "absent" THEN <<>>
  ELSE hexdigest(HashFeed(SortedPaths(tracked(d.files)), d.files))

\* _get_stored_hash: the marker file's text, stripped, or None
get_stored_hash(d) ==
  IF d.kind = "dir" /\ P_hash \in DOMAIN d.files THEN Strip(d.files[P_hash]) ELSE None

\* the comparison of _secrets_have_changed: current_hash is "" when
\* _calculate_secrets_hash failed
has_changed(current_hash, stored_hash) ==
  IF stored_hash = None \/ stored_hash = <<>> THEN TRUE
  ELSE current_hash # stored_hash

\* a dirty check that always answers "changed"
secrets_have_changed_always(d) == TRUE

\* a dirty check that takes a missing or empty marker for "unchanged"
secrets_have_changed_closed(d) ==
  IF get_stored_hash(d) = None \/ get_stored_hash(d) = <<>> THEN FALSE
  ELSE calculate_secrets_hash(d) # get_stored_hash(d)

\* _secrets_have_changed
secrets_have_changed(d) ==
  has_changed(calculate_secrets_hash(d), get_stored_hash(d))

\* _store_secrets_hash: writes the marker file (a failure is logged, not raised)
store_secrets_hash(d, hash_value) ==
  IF d.kind = "dir" THEN [d EXCEPT !.files = Put(d.files, P_hash, hash_value)] ELSE d

(***************************************************************************)
(* The state.                                                              *)
(***************************************************************************)
VARIABLES
  dir,      \* secrets_dir: [kind: "absent" | "dir" | "file", files: the tree]
  archive,  \* secrets_file: [kind: "absent" | "package" | "garbage", ...]
  backup,   \* secrets_file + ".backup", a document like archive
  cred,     \* the stored password, or NoCred
  config,   \* whether .secrets_keychain_entry exists
  clock,    \* the time, as the number of timestamps taken so far
  tampers,  \* how often the user has damaged the archive
  baseline, \* history: the tracked tree the last successful mount extracted
  last      \* history: the command that ran last, what it was given (the
            \* password, the answer typed at its y/n prompt, the failing step) and
            \* found, and how it ended

vars == <<dir, archive, backup, cred, config, clock, tampers, baseline, last>>

NoCred == "<none>"
NoDir == [kind |-> "absent", files |-> EmptyTree]
\* A document is its metadata (the timestamp "created", the salt) and its
\* files; "sealed" is history, not bytes: the password it was encrypted under.
NoFile ==
  [kind |-> "absent", created |-> 0, salt |-> <<>>, files |-> EmptyTree, sealed |-> NoCred]
\* a document cut short by a failed write: json.load raises on it
Garbage ==
  [kind |-> "garbage", created |-> 0, salt |-> <<>>, files |-> EmptyTree, sealed |-> NoCred]
\* a well-formed JSON document from which one top-level key is gone
Stripped(a, key) ==
  IF key = "metadata"
  THEN [a EXCEPT !.kind = "no_metadata", !.created = 0, !.salt = <<>>]
  ELSE [a EXCEPT !.kind = "no_files", !.files = EmptyTree]
NoBaseline == [set |-> FALSE, tree |-> EmptyTree]

\* what a command leaves behind and returns
Outcome(d, a, b, c, ok, branch) ==
  [dir |-> d, archive |-> a, backup |-> b, cred |-> c, ok |-> ok, branch |-> branch]

\* a credential store that answers "p1" when nothing is stored
get_password_default == IF cred = NoCred THEN "p1" ELSE cred

\* _get_password: the stored password, or None
get_password == cred

\* _has_stored_password
has_stored_password == cred # NoCred

\* rank of a file among the files of a walk: the draw its nonce comes from
RankOf(p, S) == Cardinality({q \in S : PathLess(q, p)}) + 1

\* the loop of unmount_secrets over the files it encrypts: one blob per
\* file, each under a fresh nonce
EncryptFiles(files, included, key, seed) ==
  [s \in {StrPath(p) : p \in included} |->
     LET p == CHOOSE q \in included : StrPath(q) = s
     IN b64encode(encrypt_data(files[p], key,
                               token_bytes(seed, RankOf(p, DOMAIN files), IV_LEN)))]

\* the package unmount_secrets assembles: metadata and files
MakePackage(password, seed, now, files, included) ==
  LET salt == token_bytes(seed, 0, SALT_LEN)
      key == derive_key(password, salt)
  IN [kind |-> "package", created |-> now, salt |-> b64encode(salt),
      files |-> EncryptFiles(files, included, key, seed), sealed |-> password]

\* a restore that copies the backup over the archive and leaves it in place
RestoreBackup_copies(d, a, b, c) ==
  IF b.kind # "absent" THEN Outcome(d, b, b, c, FALSE, "exception")
  ELSE Outcome(d, a, b, c, FALSE, "exception")

\* except Exception of unmount_secrets: the backup, if one exists, is moved
\* over the archive
RestoreBackup(d, a, b, c) ==
  IF b.kind # "absent" THEN Outcome(d, b, NoFile, c, FALSE, "exception")
  ELSE Outcome(d, a, b, c, FALSE, "exception")

UnmountFaults ==
  {"none", "hash", "read", "encrypt", "copy", "copy_partial", "open", "write",
   "store_password", "remove_backup"}

\* the try block of unmount_secrets once the directory is known to hold
\* files: encrypt, back up, write, store, hash, delete, drop the backup.
\* fault names the step that fails; encrypted is the set of files the loop
\* got through before _encrypt_data returned None (fault = "encrypt")
WriteSequence(password, seed, fault, encrypted) ==
  LET files == tracked(dir.files)
      included == IF fault = "encrypt" THEN encrypted ELSE files
      package == MakePackage(password, seed, clock + 1, dir.files, included)
      had_archive == archive.kind # "absent"
      backup_created == had_archive
      backup1 == IF had_archive THEN archive ELSE backup
      cred1 == IF fault = "store_password" THEN cred ELSE password
  IN IF fault \in {"read", "hash"} THEN RestoreBackup(dir, archive, backup, cred)
     ELSE IF had_archive /\ fault = "copy" THEN RestoreBackup(dir, archive, backup, cred)
     ELSE IF had_archive /\ fault = "copy_partial" THEN
       RestoreBackup(dir, archive, Garbage, cred)
     ELSE IF fault = "open" THEN RestoreBackup(dir, archive, backup1, cred)
     ELSE IF fault = "write" THEN RestoreBackup(dir, Garbage, backup1, cred)
     ELSE IF backup_created /\ fault = "remove_backup" THEN
       RestoreBackup(NoDir, package, backup1, cred1)
     ELSE Outcome(NoDir, package, IF backup_created THEN NoFile ELSE backup1, cred1,
                  TRUE, "written")

\* unmount_secrets that deletes a directory without files unasked
unmount_secrets_unasked(answer, seed, fault, encrypted) ==
  LET password == get_password
  IN IF dir.kind = "absent" THEN
       Outcome(dir, archive, backup, cred, TRUE, "no_folder")
     ELSE IF dir.kind # "dir" THEN
       Outcome(dir, archive, backup, cred, FALSE, "not_a_directory")
     ELSE IF password = NoCred THEN
       Outcome(dir, archive, backup, cred, FALSE, "no_password")
     ELSE IF ~secrets_have_changed(dir) THEN
       Outcome(NoDir, archive, backup, cred, TRUE, "unchanged")
     ELSE IF tracked(dir.files) = {} THEN
       Outcome(NoDir, archive, backup, cred, TRUE, "empty_deleted")
     ELSE WriteSequence(password, seed, fault, encrypted)

\* unmount_secrets whose skip of an unchanged directory leaves it in place
unmount_secrets_keeps_dir(answer, seed, fault, encrypted) ==
  LET password == get_password
  IN IF dir.kind = "absent" THEN
       Outcome(dir, archive, backup, cred, TRUE, "no_folder")
     ELSE IF dir.kind # "dir" THEN
       Outcome(dir, archive, backup, cred, FALSE, "not_a_directory")
     ELSE IF password = NoCred THEN
       Outcome(dir, archive, backup, cred, FALSE, "no_password")
     ELSE IF ~secrets_have_changed(dir) THEN
       Outcome(dir, archive, backup, cred, TRUE, "unchanged")
     ELSE IF tracked(dir.files) = {} THEN
       IF answer THEN Outcome(NoDir, archive, backup, cred, TRUE, "empty_deleted")
       ELSE Outcome(dir, archive, backup, cred, FALSE, "empty_kept")
     ELSE WriteSequence(password, seed, fault, encrypted)

\* unmount_secrets that fails when there is no directory
unmount_secrets_needs_dir(answer, seed, fault, encrypted) ==
  LET password == get_password
  IN IF dir.kind # "dir" THEN
       Outcome(dir, archive, backup, cred, FALSE, "not_a_directory")
     ELSE IF password = NoCred THEN
       Outcome(dir, archive, backup, cred, FALSE, "no_password")
     ELSE IF ~secrets_have_changed(dir) THEN
       Outcome(NoDir, archive, backup, cred, TRUE, "unchanged")
     ELSE IF tracked(dir.files) = {} THEN
       IF answer THEN Outcome(NoDir, archive, backup, cred, TRUE, "empty_deleted")
       ELSE Outcome(dir, archive, backup, cred, FALSE, "empty_kept")
     ELSE WriteSequence(password, seed, fault, encrypted)

\* unmount_secrets; with fault "hash" a file of the directory cannot be
\* read: _calculate_secrets_hash gives "" and the encryption loop raises
unmount_secrets(answer, seed, fault, encrypted) ==
  LET password == get_password
      changed == IF fault = "hash" THEN has_changed(<<>>, get_stored_hash(dir))
                 ELSE secrets_have_changed(dir)
  IN IF dir.kind = "absent" THEN
       Outcome(dir, archive, backup, cred, TRUE, "no_folder")
     ELSE IF dir.kind # "dir" THEN
       Outcome(dir, archive, backup, cred, FALSE, "not_a_directory")
     ELSE IF password = NoCred THEN
       Outcome(dir, archive, backup, cred, FALSE, "no_password")
     ELSE IF ~changed THEN
       Outcome(NoDir, archive, backup, cred, TRUE, "unchanged")
     ELSE IF tracked(dir.files) = {} THEN
       IF answer THEN Outcome(NoDir, archive, backup, cred, TRUE, "empty_deleted")
       ELSE Outcome(dir, archive, backup, cred, FALSE, "empty_kept")
     ELSE WriteSequence(password, seed, fault, encrypted)

(***************************************************************************)
(* mount_secrets.                                                          *)
(***************************************************************************)
\* the keys of package["files"] in document order (json.dump(sort_keys=True))
RECURSIVE SortedKeys(_)
SortedKeys(S) ==
  IF S = {} THEN <<>>
  ELSE LET m == CHOOSE s \in S : \A t \in S \ {s} : StrLess(s, t)
       IN <<m>> \o SortedKeys(S \ {m})

\* the plaintext of every entry of a package under a key: bytes, or None
DecryptEntries(package, key) ==
  [s \in DOMAIN package.files |-> decrypt_data(b64decode(package.files[s]), key)]

\* the tree the extraction loop writes from decrypted entries
ExtractTree(plain) ==
  [p \in {ParsePath(s) : s \in DOMAIN plain} |->
     plain[CHOOSE s \in DOMAIN plain : ParsePath(s) = p]]

MountFaults == {"none", "write", "prompt", "store_password"}

\* the try block of mount_secrets: load, derive, extract, store the hash,
\* offer to store the password
Extract(password, answer, fault) ==
  LET salt == b64decode(archive.salt)
      key == derive_key(password, salt)
      plain == DecryptEntries(archive, key)
      keys == SortedKeys(DOMAIN plain)
      failed == \E s \in DOMAIN plain : plain[s] = None
      \* decryption failed: rmtree, and break leaves the for loop only
      dir1 == IF failed THEN NoDir ELSE [kind |-> "dir", files |-> ExtractTree(plain)]
      current_hash == calculate_secrets_hash(dir1)
      dir2 == IF current_hash # <<>> THEN store_secrets_hash(dir1, current_hash) ELSE dir1
      prompted == ~has_stored_password
      cred1 == IF prompted /\ answer /\ fault # "store_password" THEN password ELSE cred
  IN IF archive.kind = "garbage" THEN
       Outcome(NoDir, archive, backup, cred, FALSE, "exception")
     ELSE IF archive.kind # "package" THEN
       \* "metadata" or "files" is missing: break before os.makedirs
       Outcome(NoDir, archive, backup, cred, FALSE, "invalid_format")
     ELSE IF fault = "write" /\ Len(keys) > 0 /\ plain[keys[1]] # None THEN
       Outcome(NoDir, archive, backup, cred, FALSE, "exception")
     ELSE IF prompted /\ fault = "prompt" THEN
       \* ret_val is already True when input() raises
       Outcome(NoDir, archive, backup, cred, TRUE, "exception_after_extract")
     ELSE Outcome(dir2, archive, backup, cred1, TRUE,
                  IF failed THEN "decrypt_failed" ELSE "mounted")

\* a mount_secrets without the check for an existing directory
mount_secrets_again(typed, answer, fault) ==
  IF archive.kind = "absent"
  THEN Outcome(dir, archive, backup, cred, FALSE, "no_archive")
  ELSE Extract(IF cred # NoCred THEN cred ELSE "p1", answer, fault)

\* a mount_secrets that makes the directory before it looks for the archive
mount_secrets_makes_dir(typed, answer, fault) ==
  IF dir.kind # "absent"
  THEN Outcome(dir, archive, backup, cred, TRUE, "already_mounted")
  ELSE IF archive.kind = "absent"
  THEN Outcome([kind |-> "dir", files |-> EmptyTree], archive, backup, cred,
               FALSE, "no_archive")
  ELSE Extract(IF cred # NoCred THEN cred ELSE "p1", answer, fault)

\* a mount_secrets that makes the directory before it validates the document
mount_secrets_unvalidated(typed, answer, fault) ==
  IF dir.kind # "absent"
  THEN Outcome(dir, archive, backup, cred, TRUE, "already_mounted")
  ELSE IF archive.kind = "absent"
  THEN Outcome(dir, archive, backup, cred, FALSE, "no_archive")
  ELSE IF archive.kind \in {"no_metadata", "no_files"}
  THEN Outcome([kind |-> "dir", files |-> EmptyTree], archive, backup, cred,
               FALSE, "invalid_format")
  ELSE Extract(IF cred # NoCred THEN cred ELSE "p1", answer, fault)

\* mount_secrets; typed is what the user types at the password prompt
mount_secrets(typed, answer, fault) ==
  LET stored == get_password
      password == IF stored # NoCred THEN stored ELSE typed
  IN IF dir.kind # "absent" THEN
       Outcome(dir, archive, backup, cred, TRUE, "already_mounted")
     ELSE IF archive.kind = "absent" THEN
       Outcome(dir, archive, backup, cred, FALSE, "no_archive")
     ELSE IF password = "" THEN
       Outcome(dir, archive, backup, cred, FALSE, "no_password")
     ELSE Extract(password, answer, fault)

(***************************************************************************)
(* The mount command cut short by a KeyboardInterrupt.                     *)
(***************************************************************************)
\* where the interrupt arrives: "report" while mount_secrets prints or asks
\* for the password, before it has written anything; "extract" in the loop,
\* after a number of entries; "prompt" at the question whether to store the
\* password; "stored" after _store_password
InterruptPoints == {"report", "extract", "prompt", "stored"}

\* what mount_secrets has left in the directory and in the credential store
\* when the interrupt arrives; count is the number of entries the loop has
\* gone through
MountUntil(typed, at, count) ==
  LET stored == get_password
      password == IF stored # NoCred THEN stored ELSE typed
      plain == DecryptEntries(archive, derive_key(password, b64decode(archive.salt)))
      keys == SortedKeys(DOMAIN plain)
      handled == {keys[i] : i \in 1..count}
      \* the entry that does not decrypt: rmtree, and the loop is left
      failed == \E s \in handled : plain[s] = None
      dir1 == IF failed THEN NoDir
              ELSE [kind |-> "dir", files |-> ExtractTree([s \in handled |-> plain[s]])]
  IN CASE at = "extract" -> [dir |-> dir1, cred |-> cred]
       [] at = "prompt" -> [dir |-> Extract(password, FALSE, "none").dir, cred |-> cred]
       [] at = "stored" -> [dir |-> Extract(password, FALSE, "none").dir, cred |-> password]
       [] OTHER -> [dir |-> dir, cred |-> cred]

\* a handler in main that leaves the directory where it is
mount_interrupted_keeps(typed, at, count) ==
  LET m == MountUntil(typed, at, count)
  IN Outcome(m.dir, archive, backup, m.cred, FALSE, at)

\* main's handler of KeyboardInterrupt for the mount command: whatever is at
\* the path of the directory is removed (rmtree with ignore_errors leaves a
\* plain file where it is), and the exit status is 1
mount_interrupted(typed, at, count) ==
  LET m == MountUntil(typed, at, count)
  IN Outcome(IF m.dir.kind = "dir" THEN NoDir ELSE m.dir,
             archive, backup, m.cred, FALSE, at)

(***************************************************************************)
(* create_secrets and its helper _unmount_with_password.                   *)
(***************************************************************************)
HelperFaults == {"none", "read", "encrypt", "open", "write"}

\* _unmount_with_password run on directory d with archive a in place:
\* encrypt the directory under the given password, write the archive, delete
\* the directory; False on any failure.  It takes no backup and stores
\* neither hash nor password (b and c pass through).
UnmountHelper(d, a, b, c, password, seed, fault) ==
  LET files == tracked(d.files)
      package == MakePackage(password, seed, clock + 1, d.files, files)
  IN IF files = {} THEN Outcome(d, a, b, c, FALSE, "no_files")
     ELSE IF fault \in {"read", "encrypt", "open"} THEN
       Outcome(d, a, b, c, FALSE, "helper_failed")
     ELSE IF fault = "write" THEN
       Outcome(d, Garbage, b, c, FALSE, "helper_failed")
     ELSE Outcome(NoDir, package, b, c, TRUE, "helper_written")

\* _unmount_with_password as create_secrets calls it, on the state as it is
unmount_with_password(password, seed, fault) ==
  UnmountHelper(dir, archive, backup, cred, password, seed, fault)

CreateFaults == HelperFaults \cup {"store_password", "readme"}

\* create_secrets without its check for an existing archive
create_secrets_unguarded(password, response, seed, fault) ==
  IF dir.kind # "absent" THEN
    IF ~response THEN Outcome(dir, archive, backup, cred, FALSE, "declined")
    ELSE IF password = "" THEN Outcome(dir, archive, backup, cred, FALSE, "no_password")
    ELSE LET r == unmount_with_password(password, seed, fault)
         IN IF r.ok THEN
              Outcome(r.dir, r.archive, r.backup,
                      IF fault = "store_password" THEN cred ELSE password,
                      TRUE, "encrypted_existing")
            ELSE r
  ELSE IF password = "" THEN
    Outcome(NoDir, archive, backup, cred, FALSE, "no_password")
  ELSE LET cred1 == IF fault = "store_password" THEN cred ELSE password
       IN IF fault = "readme" THEN
            Outcome([kind |-> "dir", files |-> EmptyTree], archive, backup, cred1,
                    FALSE, "exception")
          ELSE Outcome([kind |-> "dir", files |-> Put(EmptyTree, P_readme, README_TEXT)],
                       archive, backup, cred1, TRUE, "created")

\* create_secrets that makes the directory and forgets the password
create_secrets_forgets(password, response, seed, fault) ==
  IF archive.kind # "absent" THEN
    Outcome(dir, archive, backup, cred, FALSE, "already_exists")
  ELSE IF dir.kind # "absent" THEN
    Outcome(dir, archive, backup, cred, FALSE, "declined")
  ELSE IF password = "" THEN
    Outcome(NoDir, archive, backup, cred, FALSE, "no_password")
  ELSE Outcome([kind |-> "dir", files |-> Put(EmptyTree, P_readme, README_TEXT)],
               archive, backup, NoCred, TRUE, "created")

\* create_secrets; password is the --password argument or, without one,
\* what the user types at the prompt ("" for nothing)
create_secrets(password, response, seed, fault) ==
  IF archive.kind # "absent" THEN
    Outcome(dir, archive, backup, cred, FALSE, "already_exists")
  ELSE IF dir.kind # "absent" THEN
    IF ~response THEN Outcome(dir, archive, backup, cred, FALSE, "declined")
    ELSE IF password = "" THEN Outcome(dir, archive, backup, cred, FALSE, "no_password")
    ELSE LET r == unmount_with_password(password, seed, fault)
         IN IF r.ok THEN
              Outcome(r.dir, r.archive, r.backup,
                      IF fault = "store_password" THEN cred ELSE password,
                      TRUE, "encrypted_existing")
            ELSE r
  ELSE IF password = "" THEN
    Outcome(NoDir, archive, backup, cred, FALSE, "no_password")
  ELSE LET cred1 == IF fault = "store_password" THEN cred ELSE password
       IN IF fault = "readme" THEN
            Outcome([kind |-> "dir", files |-> EmptyTree], archive, backup, cred1,
                    FALSE, "exception")
          ELSE Outcome([kind |-> "dir", files |-> Put(EmptyTree, P_readme, README_TEXT)],
                       archive, backup, cred1, TRUE, "created")

(***************************************************************************)
(* store_password (the pass command) and clear_password.                   *)
(***************************************************************************)
\* store_password; password is the --password argument or what is typed;
\* stored is whether _store_password succeeds
store_password(password, stored) ==
  IF password = "" THEN Outcome(dir, archive, backup, cred, FALSE, "empty")
  ELSE IF stored THEN Outcome(dir, archive, backup, password, TRUE, "stored")
  ELSE Outcome(dir, archive, backup, cred, FALSE, "store_failed")

\* a clear_password that removes the plaintext directory with the credential
clear_password_sweeps(cleared) ==
  IF ~has_stored_password THEN Outcome(dir, archive, backup, cred, TRUE, "nothing_stored")
  ELSE IF cleared THEN Outcome(NoDir, archive, backup, NoCred, TRUE, "cleared")
  ELSE Outcome(dir, archive, backup, cred, FALSE, "clear_failed")

\* clear_password; cleared is whether _clear_stored_password succeeds
clear_password(cleared) ==
  IF ~has_stored_password THEN Outcome(dir, archive, backup, cred, TRUE, "nothing_stored")
  ELSE IF cleared THEN Outcome(dir, archive, backup, NoCred, TRUE, "cleared")
  ELSE Outcome(dir, archive, backup, cred, FALSE, "clear_failed")

(***************************************************************************)
(* change_password and its helper _mount_with_password.                    *)
(***************************************************************************)
\* the loop of _mount_with_password over the entries, in document order: at
\* the first entry _decrypt_data gives None for, or whose file cannot be
\* written (fault = "mount_write", at the first entry), it returns False
\* and what it wrote so far stays
ExtractInOrder(plain, keys, fault) ==
  LET good == {i \in 1..Len(keys) : \A j \in 1..i : plain[keys[j]] # None}
      written == IF fault = "mount_write" THEN {} ELSE {keys[i] : i \in good}
  IN [dir |-> [kind |-> "dir", files |-> ExtractTree([s \in written |-> plain[s]])],
      ok |-> fault # "mount_write" /\ Cardinality(good) = Len(keys)]

\* _mount_with_password on archive a: the directory it leaves behind and
\* what it returns.  It writes no hash marker.
MountHelper(a, password, fault) ==
  IF a.kind # "package" THEN [dir |-> NoDir, ok |-> FALSE]
  ELSE ExtractInOrder(DecryptEntries(a, derive_key(password, b64decode(a.salt))),
                      SortedKeys(DOMAIN a.files), fault)

ChangeFaults == HelperFaults \cup {"mount_write", "prompt", "store_password"}

\* change_password from the point where _mount_with_password has returned m
\* and _unmount_with_password, if it is reached, gives u
Reencrypt(current_password, new_password, confirmed, fault, m, u) ==
  IF ~m.ok THEN
    \* break: nothing removes what _mount_with_password extracted
    Outcome(m.dir, archive, backup, cred, FALSE, "mount_failed")
  ELSE IF fault = "prompt" THEN
    \* getpass raises: except Exception, _cleanup_mount_point
    Outcome(NoDir, archive, backup, cred, FALSE, "exception")
  ELSE IF new_password = "" THEN
    Outcome(NoDir, archive, backup, cred, FALSE, "no_new_password")
  ELSE IF ~confirmed THEN
    Outcome(NoDir, archive, backup, cred, FALSE, "mismatch")
  ELSE IF u.ok THEN
    Outcome(u.dir, u.archive, u.backup, u.cred, TRUE, "changed")
  ELSE
    \* _store_password(current_password) puts the old password back
    Outcome(u.dir, u.archive, u.backup, current_password, FALSE, u.branch)

\* the tree _mount_with_password extracted, encrypted again: the stored
\* password is cleared and the new one stored, then _unmount_with_password
ReencryptAs(current_password, new_password, confirmed, seed, fault, m) ==
  Reencrypt(current_password, new_password, confirmed, fault, m,
            UnmountHelper(m.dir, archive, backup,
                          IF fault = "store_password" THEN NoCred ELSE new_password,
                          new_password, seed, fault))

\* change_password without its checks for the archive and the directory
change_password_anywhere(typed, new_password, confirmed, seed, fault) ==
  LET stored == get_password
      current_password == IF stored # NoCred THEN stored ELSE typed
  IN IF current_password = "" THEN
       Outcome(dir, archive, backup, cred, FALSE, "no_password")
     ELSE ReencryptAs(current_password, new_password, confirmed, seed, fault,
                      MountHelper(archive, current_password, fault))

\* change_password; typed is what the user types at the prompt for the
\* current password, new_password the argument or, without one, what the
\* user types for the new password ("" for nothing), confirmed whether the
\* confirmation typed after it is the same
change_password(typed, new_password, confirmed, seed, fault) ==
  LET stored == get_password
      current_password == IF stored # NoCred THEN stored ELSE typed
  IN IF archive.kind = "absent" THEN
       Outcome(dir, archive, backup, cred, FALSE, "no_archive")
     ELSE IF dir.kind # "absent" THEN
       Outcome(dir, archive, backup, cred, FALSE, "mounted")
     ELSE IF current_password = "" THEN
       Outcome(dir, archive, backup, cred, FALSE, "no_password")
     ELSE ReencryptAs(current_password, new_password, confirmed, seed, fault,
                      MountHelper(archive, current_password, fault))

(***************************************************************************)
(* destroy_project.                                                        *)
(***************************************************************************)
DestroyFaults == {"none", "remove_archive", "remove_config", "clear_password"}

\* what destroy_project leaves behind and returns; unlike the other
\* commands it can remove the config file, which the constructor has
\* written before it runs
Destroyed(d, a, c, cfg, ok, branch) ==
  [dir |-> d, archive |-> a, backup |-> backup, cred |-> c, config |-> cfg,
   ok |-> ok, branch |-> branch]

\* a destroy_project that does not wait for the confirmation
destroy_project_unconfirmed(response, fault) ==
  Destroyed(NoDir, NoFile, NoCred, FALSE, response, "destroyed")

\* a destroy_project that reports success and leaves the archive file
destroy_project_keeps_archive(response, fault) ==
  IF ~response THEN Destroyed(dir, archive, cred, TRUE, FALSE, "cancelled")
  ELSE Destroyed(NoDir, archive, NoCred, FALSE, TRUE, "destroyed")

\* destroy_project; response is whether the user types DELETE at the
\* prompt.  The removals run in the order archive, config file, directory,
\* credential; os.remove raising ends the run (except Exception), a failing
\* _clear_stored_password does not.  The .backup file is not touched.
destroy_project(response, fault) ==
  IF ~response THEN Destroyed(dir, archive, cred, TRUE, FALSE, "cancelled")
  ELSE IF fault = "remove_archive" THEN
    Destroyed(dir, archive, cred, TRUE, FALSE, "exception")
  ELSE IF fault = "remove_config" THEN
    Destroyed(dir, NoFile, cred, TRUE, FALSE, "exception")
  ELSE Destroyed(NoDir, NoFile,
                 IF fault = "clear_password" THEN cred ELSE NoCred,
                 FALSE, TRUE, "destroyed")

(***************************************************************************)
(* get_status.                                                             *)
(***************************************************************************)
VERSION == "1.0.4"

\* what get_status reads from the archive file: the version and the
\* timestamp of its metadata and the number of its entries.  A document
\* that does not parse gives the marker "error", a missing key the default
\* "unknown"; marker "" says that "at" is the timestamp read.
ArchiveReport(a) ==
  IF a.kind = "garbage" THEN
    [version |-> "error", encrypted_file_count |-> 0,
     created |-> [marker |-> "error", at |-> 0]]
  ELSE IF a.kind = "no_metadata" THEN
    [version |-> "unknown", encrypted_file_count |-> Cardinality(DOMAIN a.files),
     created |-> [marker |-> "unknown", at |-> 0]]
  ELSE
    [version |-> VERSION, encrypted_file_count |-> Cardinality(DOMAIN a.files),
     created |-> [marker |-> "", at |-> a.created]]

\* a get_status that rewrites the hash marker of a mounted directory
get_status_marks ==
  [secrets_file_exists |-> archive.kind # "absent",
   mounted |-> dir.kind # "absent",
   password_stored |-> has_stored_password,
   archive |-> ArchiveReport(archive),
   current_file_count |-> Cardinality(tracked(dir.files)),
   leaves |-> store_secrets_hash(dir, <<>>)]

\* get_status: the dictionary it returns (the keys read from the archive
\* are present only when secrets_file_exists, current_file_count only when
\* mounted), and the directory it leaves, which it only walks
get_status ==
  [secrets_file_exists |-> archive.kind # "absent",
   mounted |-> dir.kind # "absent",
   password_stored |-> has_stored_password,
   archive |-> ArchiveReport(archive),
   current_file_count |-> Cardinality(tracked(dir.files)),
   leaves |-> dir]

(***************************************************************************)
(* The commands as actions, and what the user does between them.           *)
(***************************************************************************)
Seeds == 0..(MaxSeed - 1)

\* what a command starts from, for the record in last
Started(op, fault, password, answer) ==
  [op |-> op, fault |-> fault, password |-> password, answer |-> answer,
   new_password |-> "",
   tree |-> TrackedTree(dir.files),
   marked |-> dir.kind = "dir" /\ P_hash \in DOMAIN dir.files,
   unedited |-> baseline.set /\ TrackedTree(dir.files) = baseline.tree]

\* a command leaves its outcome in the state; SecretsManager.__init__ has
\* written the config file by then, and a command that took a timestamp
\* has moved the clock
Apply(started, r, ticked) ==
  /\ dir' = r.dir
  /\ archive' = r.archive
  /\ backup' = r.backup
  /\ cred' = r.cred
  /\ config' = TRUE
  /\ clock' = IF ticked THEN clock + 1 ELSE clock
  /\ baseline' =
       IF started.op = "mount" /\ r.branch = "mounted"
       THEN [set |-> TRUE, tree |-> TrackedTree(r.dir.files)]
       ELSE IF r.dir.kind = "absent" \/ dir.kind = "absent" THEN NoBaseline
       ELSE baseline
  /\ last' = [op |-> started.op, fault |-> started.fault, password |-> started.password,
              answer |-> started.answer, new_password |-> started.new_password,
              tree |-> started.tree, marked |-> started.marked,
              unedited |-> started.unedited,
              ok |-> r.ok, branch |-> r.branch]
  /\ UNCHANGED tampers

\* what the user does is no command: it only shows in last.op
Edited(what) ==
  [op |-> "edit", fault |-> "none", password |-> NoCred, answer |-> FALSE,
   new_password |-> "", tree |-> EmptyTree, marked |-> FALSE,
   unedited |-> FALSE, ok |-> TRUE, branch |-> what]

\* An input a command does not read is left at its default: the prompts a
\* run does not reach, the random source it does not draw from, and the
\* failure of a step it does not take.
CreateReads(password, response, seed, fault) ==
  LET exists == dir.kind # "absent"
      helper == exists /\ response /\ password # ""
      writes == helper /\ tracked(dir.files) # {}
  IN IF archive.kind # "absent"
     THEN ~response /\ seed = 0 /\ fault = "none"
     ELSE /\ ~exists => ~response
          /\ (exists /\ ~response) => password = ""
          /\ seed # 0 => (writes /\ fault \in {"none", "store_password"})
          /\ fault \in HelperFaults \ {"none"} => writes
          /\ fault = "store_password" => (writes \/ (~exists /\ password # ""))
          /\ fault = "readme" => (~exists /\ password # "")

Create ==
  \E password \in Passwords \cup {""}, response \in BOOLEAN, seed \in Seeds,
     fault \in CreateFaults :
    /\ CreateReads(password, response, seed, fault)
    /\ LET r == create_secrets(password, response, seed, fault)
           ticked == r.branch \in {"helper_failed", "encrypted_existing"}
       IN /\ ticked => clock < MaxClock
          /\ Apply(Started("create", fault, password, response), r, ticked)

MountReads(typed, answer, fault) ==
  LET reaches == dir.kind = "absent" /\ archive.kind # "absent"
      extracts == reaches /\ archive.kind = "package" /\ (cred # NoCred \/ typed # "")
  IN /\ typed # "" => (reaches /\ cred = NoCred)
     /\ answer => (extracts /\ cred = NoCred /\ fault \in {"none", "store_password"})
     /\ fault = "write" => (extracts /\ DOMAIN archive.files # {})
     /\ fault = "prompt" => (extracts /\ cred = NoCred)
     /\ fault = "store_password" => (extracts /\ cred = NoCred /\ answer)

Mount ==
  \E typed \in Passwords \cup {""}, answer \in BOOLEAN, fault \in MountFaults :
    /\ MountReads(typed, answer, fault)
    /\ Apply(Started("mount", fault, IF cred # NoCred THEN cred ELSE typed, answer),
             mount_secrets(typed, answer, fault), FALSE)

UnmountReads(answer, seed, fault, encrypted) ==
  LET changed == dir.kind = "dir" /\ cred # NoCred /\ secrets_have_changed(dir)
      writes == changed /\ tracked(dir.files) # {}
      had_archive == archive.kind # "absent"
  IN /\ answer => (changed /\ tracked(dir.files) = {})
     /\ fault \notin {"none", "hash"} => writes
     /\ fault = "hash" => (dir.kind = "dir" /\ cred # NoCred /\ tracked(dir.files) # {})
     /\ fault \in {"copy", "copy_partial", "remove_backup"} => had_archive
     /\ seed # 0 => (writes /\ fault \in {"none", "encrypt", "store_password"})
     /\ IF fault = "encrypt" THEN encrypted # tracked(dir.files) ELSE encrypted = {}

Unmount ==
  \E answer \in BOOLEAN, seed \in Seeds, fault \in UnmountFaults,
     encrypted \in SUBSET tracked(dir.files) :
    /\ UnmountReads(answer, seed, fault, encrypted)
    /\ LET r == unmount_secrets(answer, seed, fault, encrypted)
           ticked == r.branch \in {"written", "exception"}
       IN /\ ticked => clock < MaxClock
          /\ Apply(Started("unmount", fault, cred, answer), r, ticked)

\* m is what _mount_with_password gives when no step of it fails
ChangeReads(typed, new_password, confirmed, seed, fault, m) ==
  LET reaches == archive.kind # "absent" /\ dir.kind = "absent"
      current_password == IF cred # NoCred THEN cred ELSE typed
      asks == reaches /\ current_password # "" /\ m.ok
      writes == asks /\ new_password # "" /\ confirmed
      encrypts == writes /\ tracked(m.dir.files) # {}
  IN /\ fault = "mount_write" =>
          (asks /\ DOMAIN archive.files # {} /\ new_password = "" /\ confirmed)
     /\ fault = "prompt" => (asks /\ new_password = "" /\ confirmed)
     /\ new_password # "" => asks
     /\ ~confirmed => (asks /\ new_password # "" /\ fault = "none")
     /\ fault = "store_password" => writes
     /\ fault \in HelperFaults \ {"none"} => encrypts
     /\ seed # 0 => (encrypts /\ fault \in {"none", "store_password"})

\* the inputs change_password may read, given what its mount gives
ChangeInputs(typed, current_password, m) ==
  \E new_password \in Passwords \cup {""}, confirmed \in BOOLEAN,
     seed \in Seeds, fault \in ChangeFaults :
    /\ ChangeReads(typed, new_password, confirmed, seed, fault, m)
    /\ LET r == change_password(typed, new_password, confirmed, seed, fault)
           ticked == r.branch \in {"changed", "helper_failed"}
           started == Started("change", fault, current_password, confirmed)
       IN /\ ticked => clock < MaxClock
          /\ Apply([started EXCEPT !.new_password = new_password], r, ticked)

ChangePassword ==
  \E typed \in Passwords \cup {""} :
    /\ typed # "" => (archive.kind # "absent" /\ dir.kind = "absent" /\ cred = NoCred)
    /\ ChangeInputs(typed, IF cred # NoCred THEN cred ELSE typed,
                    MountHelper(archive, IF cred # NoCred THEN cred ELSE typed, "none"))

DestroyReads(response, fault) ==
  /\ fault # "none" => response
  /\ fault = "remove_archive" => archive.kind # "absent"
  /\ fault = "clear_password" => has_stored_password

Destroy ==
  \E response \in BOOLEAN, fault \in DestroyFaults :
    /\ DestroyReads(response, fault)
    /\ LET r == destroy_project(response, fault)
       IN /\ dir' = r.dir
          /\ archive' = r.archive
          /\ backup' = r.backup
          /\ cred' = r.cred
          /\ config' = r.config
          /\ baseline' = IF r.dir.kind = "absent" THEN NoBaseline ELSE baseline
          /\ last' = [op |-> "destroy", fault |-> fault, password |-> "",
                      answer |-> response, new_password |-> "",
                      tree |-> TrackedTree(dir.files),
                      marked |-> dir.kind = "dir" /\ P_hash \in DOMAIN dir.files,
                      unedited |-> baseline.set /\ TrackedTree(dir.files) = baseline.tree,
                      ok |-> r.ok, branch |-> r.branch]
          /\ UNCHANGED <<clock, tampers>>

\* the status command: main prints the dictionary and exits with 0; the
\* outcome records which reading of the archive was reported
Status ==
  LET r == get_status
  IN Apply(Started("status", "none", "", FALSE),
           Outcome(r.leaves, archive, backup, cred, TRUE,
                   IF r.secrets_file_exists THEN r.archive.version ELSE "no_archive"),
           FALSE)

Pass ==
  \E password \in Passwords \cup {""}, stored \in BOOLEAN :
    /\ ~stored => password = "p1"
    /\ Apply(Started("pass", IF stored THEN "none" ELSE "store_password", password, FALSE),
             store_password(password, stored), FALSE)

Clear ==
  \E cleared \in BOOLEAN :
    /\ ~cleared => has_stored_password
    /\ Apply(Started("clear", IF cleared THEN "none" ELSE "clear_password", cred, FALSE),
             clear_password(cleared), FALSE)

\* the interrupt arrives where the run of mount_secrets can be
InterruptReads(typed, at, count) ==
  LET password == IF cred # NoCred THEN cred ELSE typed
      extracts == dir.kind = "absent" /\ archive.kind = "package" /\ password # ""
      plain == DecryptEntries(archive, derive_key(password, b64decode(archive.salt)))
      keys == SortedKeys(DOMAIN plain)
  IN /\ typed # "" => (extracts /\ cred = NoCred)
     /\ at # "report" => extracts
     /\ at \in {"prompt", "stored"} => cred = NoCred
     /\ IF at = "extract"
        THEN /\ count <= Len(keys)
             /\ \A i \in 1..(count - 1) : plain[keys[i]] # None
        ELSE count = 0

\* the mount command, interrupted
MountInterrupt ==
  \E typed \in Passwords \cup {""}, at \in InterruptPoints, count \in 0..2 :
    /\ InterruptReads(typed, at, count)
    /\ Apply(Started("mount", "interrupt", IF cred # NoCred THEN cred ELSE typed, FALSE),
             mount_interrupted(typed, at, count), FALSE)

\* the user writes a file in the mounted directory
UserWrite ==
  \E p \in UserPaths : \E c \in Contents(p) :
    /\ dir.kind = "dir"
    /\ \A q \in DOMAIN dir.files : ~Clash(p, q)
    /\ dir' = [dir EXCEPT !.files = Put(dir.files, p, c)]
    /\ last' = Edited("write")
    /\ UNCHANGED <<archive, backup, cred, config, clock, tampers, baseline>>

\* the user deletes a file of the mounted directory: one of the tracked
\* files, or the hash marker
UserRemove ==
  \E p \in DOMAIN dir.files :
    /\ dir.kind = "dir"
    /\ dir' = [dir EXCEPT !.files = Drop(dir.files, p)]
    /\ last' = Edited("remove")
    /\ UNCHANGED <<archive, backup, cred, config, clock, tampers, baseline>>

\* the user writes the hash marker file: leaves it empty, or holding a line
\* break only, or appends a line break to what it holds
UserMarker ==
  /\ dir.kind = "dir"
  /\ \E how \in {"empty", "blank", "line_break"} :
       LET text == IF P_hash \in DOMAIN dir.files THEN dir.files[P_hash] ELSE <<>>
           c == CASE how = "empty" -> <<>>
                  [] how = "blank" -> <<10>>
                  [] OTHER -> text \o <<10>>
       IN /\ P_hash \in DOMAIN dir.files => c # text
          /\ how = "line_break" => (text # <<>> /\ text[Len(text)] # 10)
          /\ dir' = [dir EXCEPT !.files = Put(dir.files, P_hash, c)]
  /\ last' = Edited("marker")
  /\ UNCHANGED <<archive, backup, cred, config, clock, tampers, baseline>>

\* the user keeps a copy of the archive file under the name of the backup
UserBackup ==
  /\ archive.kind = "package"
  /\ backup.kind = "absent"
  /\ backup' = archive
  /\ last' = Edited("backup")
  /\ UNCHANGED <<dir, archive, cred, config, clock, tampers, baseline>>

\* what is at the path of the directory when it is a plain file
PlainFile == [kind |-> "file", files |-> EmptyTree]

\* the user puts a plain file where the directory would be
UserFile ==
  /\ dir.kind = "absent"
  /\ dir' = PlainFile
  /\ last' = Edited("file")
  /\ UNCHANGED <<archive, backup, cred, config, clock, tampers, baseline>>

\* the user takes the plain file away again
UserUnfile ==
  /\ dir.kind = "file"
  /\ dir' = NoDir
  /\ last' = Edited("unfile")
  /\ UNCHANGED <<archive, backup, cred, config, clock, tampers, baseline>>

\* blob with its i-th byte XORed with mask
FlipByte(blob, i, mask) == [blob EXCEPT ![i] = Xor(@, mask)]

\* what the user's damage does to a blob: one bit of the nonce or of the
\* last byte flipped, or the blob cut to less than a nonce
Damage(blob, how) ==
  CASE how = "flip_first" -> FlipByte(blob, 1, 1)
    [] how = "flip_last" -> FlipByte(blob, Len(blob), 1)
    [] OTHER -> SubSeq(blob, 1, IV_LEN - 1)

\* the user damages one entry of the archive file
Tamper ==
  \E s \in DOMAIN archive.files, how \in {"flip_first", "flip_last", "truncate"} :
    /\ archive.kind = "package"
    /\ tampers < MaxTamper
    /\ archive' = [archive EXCEPT !.files[s] = b64encode(Damage(b64decode(@), how))]
    /\ tampers' = tampers + 1
    /\ last' = Edited("tamper")
    /\ UNCHANGED <<dir, backup, cred, config, clock, baseline>>

\* the user removes a top-level key from the archive document
StripKey ==
  \E key \in {"metadata", "files"} :
    /\ archive.kind = "package"
    /\ tampers < MaxTamper
    /\ archive' = Stripped(archive, key)
    /\ tampers' = tampers + 1
    /\ last' = Edited("strip")
    /\ UNCHANGED <<dir, backup, cred, config, clock, baseline>>

Init ==
  /\ dir = NoDir
  /\ archive = NoFile
  /\ backup = NoFile
  /\ cred = NoCred
  /\ config = FALSE
  /\ clock = 0
  /\ tampers = 0
  /\ baseline = NoBaseline
  /\ last = [op |-> "init", fault |-> "none", password |-> NoCred, answer |-> FALSE,
             new_password |-> "", tree |-> EmptyTree, marked |-> FALSE,
             unedited |-> FALSE, ok |-> TRUE, branch |-> "init"]

Next ==
  \/ Create
  \/ Mount
  \/ Unmount
  \/ Pass
  \/ Clear
  \/ UserWrite
  \/ UserRemove

Spec == Init /\ [][Next]_vars

\* the commands, and someone who damages the archive file between them
NextTamper ==
  \/ Create
  \/ Mount
  \/ Unmount
  \/ Clear
  \/ Tamper
  \/ StripKey

SpecTamper == Init /\ [][NextTamper]_vars

\* the commands around a change of password, with someone who edits the
\* directory and damages the archive file between them
NextChange ==
  \/ Create
  \/ Clear
  \/ ChangePassword
  \/ UserWrite
  \/ Tamper

SpecChange == Init /\ [][NextChange]_vars

\* the commands that build up a project, and its destruction
NextDestroy ==
  \/ Create
  \/ Mount
  \/ Unmount
  \/ Clear
  \/ Destroy

SpecDestroy == Init /\ [][NextDestroy]_vars

\* the commands that walk the directory, around a user who deletes files
\* and writes the hash marker
NextMarker ==
  \/ Create
  \/ Mount
  \/ Unmount
  \/ ChangePassword
  \/ UserRemove
  \/ UserMarker

SpecMarker == Init /\ [][NextMarker]_vars

\* the life of a project beside a user who keeps a copy of the archive
\* under the name of the backup
NextBackup ==
  \/ Create
  \/ Mount
  \/ Unmount
  \/ Destroy
  \/ UserBackup

SpecBackup == Init /\ [][NextBackup]_vars

\* every command that moves the vault between its states, without the user
\* touching anything in between
NextSteady ==
  \/ Create
  \/ Mount
  \/ Unmount
  \/ ChangePassword
  \/ Destroy

SpecSteady == Init /\ [][NextSteady]_vars

\* the commands through the life of a project, someone who removes a key
\* from the archive document, and the status command in between
NextStatus ==
  \/ Create
  \/ Mount
  \/ Unmount
  \/ Destroy
  \/ StripKey
  \/ Status

SpecStatus == Init /\ [][NextStatus]_vars

\* the commands beside a user who edits the directory and who may interrupt
\* the mount command
NextInterrupt ==
  \/ Create
  \/ Mount
  \/ Unmount
  \/ UserWrite
  \/ MountInterrupt

SpecInterrupt == Init /\ [][NextInterrupt]_vars

\* the commands beside a user who puts a plain file at the path of the
\* directory
NextFile ==
  \/ Create
  \/ Mount
  \/ Unmount
  \/ Clear
  \/ UserFile
  \/ UserUnfile

SpecFile == Init /\ [][NextFile]_vars

(***************************************************************************)
(* Claims.                                                                 *)
(***************************************************************************)
\* a step of the named command
Ran(op) == last'.op = op

\* C1 (as claimed): a successful unmount of a directory with tracked files,
\* followed at once by a mount with the same password, recreates exactly
\* the tracked files the unmount removed, byte for byte.  Stated for runs in
\* which no step fails, the password is the one the archive was written
\* under, and the directory is not as a mount extracted it (it is new, or
\* the user has changed a tracked file since).
C1_RoundTrip ==
  [][ ( /\ last.op = "unmount" /\ last.ok /\ last.fault = "none"
        /\ last.tree # EmptyTree /\ ~last.unedited
        /\ last.password = archive.sealed
        /\ Ran("mount") /\ last'.fault = "none"
        /\ last'.password = last.password )
      => ( /\ last'.ok
           /\ dir'.kind = "dir"
           /\ TrackedTree(dir'.files) = last.tree ) ]_vars

\* C2 (as claimed): an unmount of a directory whose tracked files are as the
\* last successful mount left them rewrites nothing, deletes the directory
\* and reports success.
C2_NoChurnOriginal ==
  [][ ( /\ Ran("unmount") /\ dir.kind = "dir"
        /\ baseline.set /\ TrackedTree(dir.files) = baseline.tree )
      => ( archive' = archive /\ dir'.kind = "absent" /\ last'.ok ) ]_vars

\* C2 (amended): an unmount of a directory whose tracked files are as the
\* last successful mount left them, with a stored password to resolve, the
\* hash marker still holding the hash that mount wrote, and the hash of the
\* directory computed anew (its files can be read), rewrites nothing (the
\* archive is the same document as before), deletes the directory and
\* reports success.
C2_NoChurn ==
  [][ ( /\ Ran("unmount") /\ dir.kind = "dir"
        /\ baseline.set /\ TrackedTree(dir.files) = baseline.tree
        /\ cred # NoCred
        /\ get_stored_hash(dir)
             = calculate_secrets_hash([kind |-> "dir", files |-> baseline.tree])
        /\ last'.fault # "hash" )
      => ( archive' = archive /\ dir'.kind = "absent" /\ last'.ok ) ]_vars

\* an unchanged directory with files in it was unmounted: it is gone, and the
\* archive is the document the mount read
C2_Witness ==
  /\ last.op = "unmount" /\ last.unedited /\ last.password # NoCred
  /\ last.tree # EmptyTree /\ last.branch = "unchanged"
  /\ last.ok /\ dir.kind = "absent" /\ archive.kind = "package"

\* C3 (as claimed): when encrypting a file fails during unmount's rewrite,
\* the archive is left as it was (no archive of a subset of the files is
\* written), the directory is not deleted, and unmount reports failure.
C3_EncryptFailureAborts ==
  [][ ( Ran("unmount") /\ last'.fault = "encrypt" )
      => ( archive' = archive /\ dir' = dir /\ ~last'.ok ) ]_vars

\* C4 (as claimed): when a step of unmount's write sequence raises, then
\* after unmount returns the archive is the document it was before and the
\* directory still exists with its files.  Stated for an unmount that
\* started with an archive in place.
C4_BackupGuard ==
  [][ ( Ran("unmount") /\ last'.branch = "exception" /\ archive.kind = "package" )
      => ( archive' = archive /\ dir' = dir ) ]_vars

\* C5 (as claimed): when the decryption of an archive entry fails during
\* mount, mount reports failure, no directory exists afterwards and the
\* archive is unchanged.
C5_DecryptFailureRollsBack ==
  [][ ( /\ Ran("mount") /\ dir.kind = "absent" /\ archive.kind = "package"
        /\ last'.password # ""
        /\ last'.fault = "none"
        /\ \E s \in DOMAIN archive.files : Len(b64decode(archive.files[s])) < IV_LEN )
      => ( ~last'.ok /\ dir'.kind = "absent" /\ archive' = archive ) ]_vars

\* C6 (as claimed): a mount of an archive with a password other than the one
\* it was encrypted under fails and leaves no directory.
C6_WrongPasswordFails ==
  [][ ( /\ Ran("mount") /\ dir.kind = "absent" /\ archive.kind = "package"
        /\ last'.password \notin {"", archive.sealed} )
      => ( ~last'.ok /\ dir'.kind = "absent" ) ]_vars

\* the masks a byte is modified with
FlipMasks == {1, 128, 255}

\* C7 (as claimed): for every blob of the archive and every modification of
\* one of its bytes, decrypt under the archive's key signals failure.
C7_TamperDetected ==
  archive.kind = "package" =>
    LET key == derive_key(archive.sealed, b64decode(archive.salt))
    IN \A s \in DOMAIN archive.files :
         LET blob == b64decode(archive.files[s])
         IN \A i \in 1..Len(blob) : \A mask \in FlipMasks :
              decrypt_data(FlipByte(blob, i, mask), key) = None

\* C8: a create in a state where the archive file exists fails and leaves
\* the archive, the directory and the stored credential as they were.
C8_CreateGuard ==
  [][ ( Ran("create") /\ archive.kind # "absent" )
      => ( ~last'.ok /\ archive' = archive /\ dir' = dir /\ cred' = cred ) ]_vars

C8_Witness ==
  /\ last.op = "create" /\ ~last.ok /\ last.branch = "already_exists"
  /\ archive.kind = "package" /\ dir.kind = "dir" /\ last.password # ""

C10_NoPassword ==
  [][ ( Ran("unmount") /\ dir.kind = "dir" /\ cred = NoCred )
      => ( ~last'.ok /\ dir' = dir /\ archive' = archive ) ]_vars

C10_Witness ==
  /\ last.op = "unmount" /\ ~last.ok /\ last.branch = "no_password"
  /\ dir.kind = "dir" /\ last.tree # EmptyTree /\ archive.kind = "package"

\* C11: an unmount of a directory that holds no tracked file and is judged
\* changed leaves the archive as it was (absent stays absent), deletes the
\* directory exactly when the user answers yes to the prompt, leaves it
\* untouched otherwise, and reports success exactly when it deleted it.
C11_EmptyVault ==
  [][ ( /\ Ran("unmount") /\ dir.kind = "dir" /\ tracked(dir.files) = {}
        /\ cred # NoCred /\ secrets_have_changed(dir) )
      => ( /\ archive' = archive
           /\ dir'.kind = "absent" <=> last'.answer
           /\ ~last'.answer => dir' = dir
           /\ last'.ok <=> last'.answer ) ]_vars

\* both answers have been given: a directory without files was deleted on
\* "yes" with the archive still in place ...
C11_Witness ==
  /\ last.op = "unmount" /\ last.answer /\ last.ok /\ last.tree = EmptyTree
  /\ last.branch = "empty_deleted"
  /\ dir.kind = "absent" /\ archive.kind = "package"

\* ... and kept on "no"
C11_WitnessKept ==
  /\ last.op = "unmount" /\ ~last.answer /\ ~last.ok /\ last.tree = EmptyTree
  /\ last.branch = "empty_kept"
  /\ dir.kind = "dir" /\ tracked(dir.files) = {}

\* what a mount of archive a under a password extracts, and whether every
\* entry decrypts
Mounted(a, password) == MountHelper(a, password, "none")

\* C12 (as claimed): after a change-password that reports success the
\* directory is absent, the stored credential is the new password, and the
\* archive decrypts under the new password to the tree the old archive
\* decrypted to under the old password.
C12_ChangeRoundTrip ==
  [][ ( Ran("change") /\ last'.ok )
      => ( /\ dir'.kind = "absent"
           /\ cred' = last'.new_password
           /\ Mounted(archive', last'.new_password) = Mounted(archive, last'.password) )
    ]_vars

\* C13 (as claimed): a change-password whose decryption with the old
\* password fails (an entry does not decrypt, or the password given is not
\* the one the archive was encrypted under) leaves the archive and the stored
\* credential as they were and leaves no directory.
C13_ChangeDecryptFails ==
  [][ ( /\ Ran("change") /\ archive.kind = "package" /\ dir.kind = "absent"
        /\ last'.password # "" /\ last'.fault = "none"
        /\ \/ ~Mounted(archive, last'.password).ok
           \/ last'.password # archive.sealed )
      => ( archive' = archive /\ dir'.kind = "absent" /\ cred' = cred ) ]_vars

\* C14 (as claimed): when the re-encryption under the new password fails,
\* then after change-password the stored credential is the old password and
\* the archive decrypts under the old password as it did before.
C14_ReencryptFails ==
  [][ ( Ran("change") /\ last'.branch \in {"helper_failed", "no_files"} )
      => ( /\ cred' = last'.password
           /\ Mounted(archive', last'.password).ok
           /\ Mounted(archive', last'.password) = Mounted(archive, last'.password) )
    ]_vars

\* C15: a change-password run while the archive is missing or the directory
\* exists fails and leaves the archive, the directory and the stored
\* credential as they were.
C15_ChangeOnlyUnmounted ==
  [][ ( Ran("change") /\ (archive.kind = "absent" \/ dir.kind # "absent") )
      => ( ~last'.ok /\ archive' = archive /\ dir' = dir /\ cred' = cred ) ]_vars

\* change-password was refused with the directory in place ...
C15_Witness ==
  /\ last.op = "change" /\ ~last.ok /\ last.branch = "mounted"
  /\ dir.kind = "dir" /\ archive.kind = "package" /\ cred # NoCred

\* ... and with no archive
C15_WitnessNoArchive ==
  /\ last.op = "change" /\ ~last.ok /\ last.branch = "no_archive"
  /\ archive.kind = "absent" /\ dir.kind = "dir"


\* C16: a destroy whose confirmation is not DELETE leaves the archive, the
\* directory, the config file and the stored credential as they were, and
\* its outcome is a cancellation, not a success.
C16_DestroyCancelled ==
  [][ (Ran("destroy") /\ ~last'.answer)
        => (/\ archive' = archive
            /\ dir' = dir
            /\ config' = config
            /\ cred' = cred
            /\ last'.branch = "cancelled"
            /\ ~last'.ok) ]_vars

\* C16 as it holds: a destroy whose confirmation is not DELETE deletes
\* nothing and changes neither the archive, the directory nor the stored
\* credential; a config file that exists is kept, and one that is missing
\* has been written by the time the prompt appears.
C16_DestroyCancelledKeeps ==
  [][ (Ran("destroy") /\ ~last'.answer)
        => (/\ archive' = archive
            /\ dir' = dir
            /\ backup' = backup
            /\ config'
            /\ cred' = cred
            /\ last'.branch = "cancelled"
            /\ ~last'.ok) ]_vars

C16_Witness ==
  /\ last.op = "destroy"
  /\ ~last.answer
  /\ archive.kind = "package"
  /\ dir.kind = "dir"
  /\ cred # NoCred

\* C17: after a confirmed destroy that reports success, none of the
\* archive, the directory, the config file and the stored credential
\* exists.
C17_DestroyRemovesAll ==
  [][ (Ran("destroy") /\ last'.answer /\ last'.ok)
        => (/\ archive'.kind = "absent"
            /\ dir'.kind = "absent"
            /\ ~config'
            /\ cred' = NoCred) ]_vars



\* C18: mount while the plaintext directory already exists succeeds and
\* leaves the directory's files, the hash marker, the archive and the
\* stored credential unchanged.
C18_MountIdempotent ==
  [][ (Ran("mount") /\ dir.kind # "absent")
        => (/\ last'.ok
            /\ dir' = dir
            /\ archive' = archive
            /\ backup' = backup
            /\ cred' = cred) ]_vars

\* a second mount of a mounted directory that the user has edited since
C18_Witness ==
  /\ last.op = "mount"
  /\ last.branch = "already_mounted"
  /\ P_hash \in DOMAIN dir.files
  /\ ~last.unedited
  /\ archive.kind = "package"
  /\ cred # NoCred

\* C19: mount with neither an archive nor a plaintext directory fails for
\* want of an archive and creates no plaintext directory.
C19_MountNoArchive ==
  [][ (Ran("mount") /\ archive.kind = "absent" /\ dir.kind = "absent")
        => (/\ ~last'.ok
            /\ last'.branch = "no_archive"
            /\ dir'.kind = "absent"
            /\ archive'.kind = "absent") ]_vars

C19_Witness ==
  /\ last.op = "mount"
  /\ last.branch = "no_archive"
  /\ dir.kind = "absent"
  /\ archive.kind = "absent"

\* C20: mount of an archive document that lacks the top-level key metadata
\* or files fails without creating the plaintext directory and without
\* modifying the archive.
C20_MountInvalidFormat ==
  [][ (Ran("mount") /\ dir.kind = "absent"
         /\ archive.kind \in {"no_metadata", "no_files"})
        => (/\ ~last'.ok
            /\ dir'.kind = "absent"
            /\ archive' = archive) ]_vars

C20_Witness ==
  /\ last.op = "mount"
  /\ last.branch = "invalid_format"
  /\ archive.kind = "no_files"

C20_WitnessNoMetadata ==
  /\ last.op = "mount"
  /\ last.branch = "invalid_format"
  /\ archive.kind = "no_metadata"

\* C21: unmount when there is no plaintext directory succeeds and rewrites
\* nothing: the archive is the same document afterwards, and so are the
\* backup and the stored credential.
C21_UnmountNoFolder ==
  [][ (Ran("unmount") /\ dir.kind = "absent")
        => (/\ last'.ok
            /\ archive' = archive
            /\ backup' = backup
            /\ cred' = cred
            /\ dir'.kind = "absent") ]_vars

\* an unmount that finds no directory beside an archive written earlier
C21_Witness ==
  /\ last.op = "unmount"
  /\ last.branch = "no_folder"
  /\ last.ok
  /\ archive.kind = "package"

C23_CreateEncryptsExisting ==
  [][ (Ran("create") /\ archive.kind = "absent" /\ dir.kind = "dir")
        => IF last'.ok
           THEN /\ archive'.kind = "package"
                /\ Mounted(archive', last'.password).ok
                /\ Mounted(archive', last'.password).dir.files = TrackedTree(dir.files)
                /\ dir'.kind = "absent"
                /\ cred' = last'.password
           ELSE /\ dir' = dir
                /\ archive'.kind = "absent" ]_vars

\* C24: after every successful create, mount, unmount, change-password or
\* destroy at most one of the plaintext directory and the archive file
\* exists.
C24_OneRepresentation ==
  (last.op \in {"create", "mount", "unmount", "change", "destroy"} /\ last.ok)
    => ~(dir.kind # "absent" /\ archive.kind # "absent")

\* C24 as it holds: after every successful create, unmount, change-password
\* or destroy at most one of the plaintext directory and the archive file
\* exists; a mount that has extracted the archive keeps it beside the
\* directory.
C24_OneRepresentationButMount ==
  /\ (last.op \in {"create", "unmount", "change", "destroy"} /\ last.ok)
       => ~(dir.kind # "absent" /\ archive.kind # "absent")
  /\ (last.op = "mount" /\ last.branch = "mounted")
       => (dir.kind = "dir" /\ archive.kind = "package")

\* an unmount that wrote the archive and removed the directory
C24_Witness ==
  /\ last.op = "unmount"
  /\ last.branch = "written"
  /\ last.ok
  /\ dir.kind = "absent"
  /\ archive.kind = "package"

\* a mount that extracted the archive and kept it
C24_WitnessMounted ==
  /\ last.op = "mount"
  /\ last.branch = "mounted"
  /\ dir.kind = "dir"
  /\ archive.kind = "package"

\* C25: status returns a result in every state and changes neither the
\* archive, the plaintext directory with its hash marker, the backup nor
\* the stored credential.
C25_StatusPure ==
  [][ Ran("status")
        => (/\ last'.ok
            /\ archive' = archive
            /\ dir' = dir
            /\ backup' = backup
            /\ cred' = cred
            /\ baseline' = baseline) ]_vars

\* status of a mounted directory beside an archive that does not parse
C25_Witness ==
  /\ last.op = "status"
  /\ last.branch = "error"
  /\ archive.kind = "garbage"
  /\ dir.kind = "dir"
  /\ P_hash \in DOMAIN dir.files

\* status with nothing there, after the destroy of a project whose archive
\* had been written
C25_WitnessDestroyed ==
  /\ last.op = "status"
  /\ last.branch = "no_archive"
  /\ dir.kind = "absent"
  /\ clock > 0

\* status of an archive document without its metadata
C25_WitnessUnknown ==
  /\ last.op = "status"
  /\ last.branch = "unknown"

\* C26: after a confirmed destroy that succeeded the vault is uninitialized
\* again: the next create succeeds whenever a create in a new working
\* directory does (a password is given and README.txt can be written), and
\* then leaves a fresh plaintext directory and no archive.
C26_DestroyThenCreate ==
  [][ (Ran("create") /\ last.op = "destroy" /\ last.answer /\ last.ok)
        => (/\ last'.ok <=> (last'.password # "" /\ last'.fault # "readme")
            /\ archive'.kind = "absent"
            /\ last'.ok =>
                 /\ dir' = [kind |-> "dir", files |-> Put(EmptyTree, P_readme, README_TEXT)]
                 /\ last'.branch = "created"
                 /\ last'.fault # "store_password" => cred' = last'.password) ]_vars

\* a create that succeeded in a working directory whose archive had been
\* written and destroyed before
C26_Witness ==
  /\ last.op = "create"
  /\ last.branch = "created"
  /\ last.ok
  /\ clock > 1
  /\ archive.kind = "absent"
  /\ dir.kind = "dir"

\* C27: with SHA-256 taken as collision-free, the directory hash of two
\* states of the directory is the same exactly when their tracked files are
\* the same paths with the same contents.  The two states compared are the
\* directory as the last mount extracted it and the directory as it is now.
C27_HashInjective ==
  (baseline.set /\ dir.kind = "dir")
    => (calculate_secrets_hash(dir)
          = calculate_secrets_hash([kind |-> "dir", files |-> baseline.tree])
        <=> TrackedTree(dir.files) = baseline.tree)

\* C28: unmount skips re-encryption only when the marker file holds a
\* non-empty hash that equals the hash computed now; with the marker
\* missing, empty or blank, or with no hash computed, the directory is
\* treated as changed.
C28_FailOpen ==
  [][ (Ran("unmount") /\ last'.branch = "unchanged")
        => (/\ dir.kind = "dir"
            /\ P_hash \in DOMAIN dir.files
            /\ Strip(dir.files[P_hash]) # <<>>
            /\ last'.fault # "hash"
            /\ Strip(dir.files[P_hash]) = calculate_secrets_hash(dir)) ]_vars

\* the skip taken beside the archive an earlier unmount wrote
C28_Witness ==
  /\ last.op = "unmount"
  /\ last.branch = "unchanged"
  /\ last.ok
  /\ archive.kind = "package"

\* an unmount of an unedited directory whose marker the user had deleted,
\* emptied or blanked: the archive is written again
C28_WitnessEmptied ==
  /\ last.op = "unmount"
  /\ last.branch = "written"
  /\ last.unedited
  /\ clock = 2

\* an unmount of an unedited directory during which no hash is computed
C28_WitnessNoHash ==
  /\ last.op = "unmount"
  /\ last.fault = "hash"
  /\ last.unedited
  /\ dir.kind = "dir"

\* C29: the hash marker file is left out of every walk: no archive written
\* by unmount, create or change-password holds an entry for it, and the
\* directory hash is the same whether the marker is there or not and
\* whatever it holds.
C29_MarkerExcluded ==
  /\ archive.kind = "package" =>
       \A s \in DOMAIN archive.files : ParsePath(s)[Len(ParsePath(s))] # HASH_FILE
  /\ dir.kind = "dir" =>
       \A c \in {<<>>, <<10>>, calculate_secrets_hash(dir)} :
         /\ calculate_secrets_hash(dir)
              = calculate_secrets_hash([dir EXCEPT !.files = Drop(dir.files, P_hash)])
         /\ calculate_secrets_hash(dir)
              = calculate_secrets_hash([dir EXCEPT !.files = Put(dir.files, P_hash, c)])

\* an archive that unmount wrote from a directory that held the marker
C29_Witness ==
  /\ last.op = "unmount"
  /\ last.branch = "written"
  /\ last.marked
  /\ archive.kind = "package"

\* an archive that create wrote from a directory that held a marker
C29_WitnessCreate ==
  /\ last.op = "create"
  /\ last.branch = "encrypted_existing"
  /\ last.marked
  /\ archive.kind = "package"

\* a mounted directory whose marker holds its hash
C29_WitnessHash ==
  /\ dir.kind = "dir"
  /\ P_hash \in DOMAIN dir.files
  /\ dir.files[P_hash] = calculate_secrets_hash(dir)

\* C30: when the write sequence of an unmount fails that found no archive
\* and so took no backup, a backup file that was there before is not moved
\* over the archive: it stays where it is, and the archive is not the
\* document it holds.
C30_StaleBackupIgnored ==
  [][ (Ran("unmount") /\ last'.branch = "exception"
         /\ archive.kind = "absent" /\ backup.kind # "absent")
        => (backup' = backup /\ archive' # backup) ]_vars

\* C31: the backup file lives within one operation: an unmount or a
\* change-password that starts without a backup file ends without one,
\* whether it succeeds or a step of it fails.
C31_BackupScoped ==
  [][ ((Ran("unmount") \/ Ran("change")) /\ backup.kind = "absent")
        => backup'.kind = "absent" ]_vars

\* an unmount whose write failed after it had taken a backup: the backup
\* has been moved back over the archive
C31_Witness ==
  /\ last.op = "unmount"
  /\ last.fault = "write"
  /\ archive.kind = "package"
  /\ backup.kind = "absent"

\* an unmount that replaced an archive and removed the backup it had taken
C31_WitnessWritten ==
  /\ last.op = "unmount"
  /\ last.branch = "written"
  /\ clock = 2
  /\ backup.kind = "absent"

C32_WitnessPrompt ==
  /\ last.op = "mount" /\ last.fault = "interrupt" /\ last.branch = "prompt"
  /\ archive.kind = "package" /\ DOMAIN archive.files # {}
  /\ dir.kind = "absent"

\* C37: an interrupt during a mount command that found the plaintext
\* directory already there does not delete it: the files in it survive.
C37_InterruptKeepsMounted ==
  [][ (Ran("mount") /\ last'.fault = "interrupt" /\ dir.kind = "dir")
        => dir' = dir ]_vars

\* C33: with a plain file at the path of the plaintext directory, mount and
\* unmount both fail, and leave that file, the archive and the stored
\* credential as they were.
C33_NotADirectory ==
  [][ ((Ran("mount") \/ Ran("unmount")) /\ dir.kind = "file")
        => (~last'.ok /\ dir' = dir /\ archive' = archive /\ cred' = cred) ]_vars

\* C34: clear removes the stored credential, and succeeds without doing
\* anything when none is stored; pass stores the password given, over
\* whatever was stored.  Neither creates, changes or deletes the archive,
\* the plaintext directory or the hash marker in it.
C34_CredentialOnly ==
  [][ (Ran("pass") \/ Ran("clear"))
        => /\ dir' = dir /\ archive' = archive /\ backup' = backup
           /\ (Ran("clear") /\ last'.ok) => cred' = NoCred
           /\ (Ran("clear") /\ cred = NoCred) => last'.ok
           /\ (Ran("pass") /\ last'.ok)
                => (last'.password # "" /\ cred' = last'.password) ]_vars

\* pass has replaced the password the archive was written under, beside a
\* mounted directory with its hash marker
C34_Witness ==
  /\ last.op = "pass" /\ last.ok
  /\ archive.kind = "package" /\ archive.sealed = "p1" /\ cred = "p2"
  /\ dir.kind = "dir" /\ P_hash \in DOMAIN dir.files

\* clear has removed the credential beside a mounted directory
C34_WitnessCleared ==
  /\ last.op = "clear" /\ last.branch = "cleared"
  /\ archive.kind = "package"
  /\ dir.kind = "dir" /\ P_hash \in DOMAIN dir.files

\* C35: whenever mount_secrets reports success the plaintext directory
\* exists afterwards: an entry that does not decrypt, or an exception after
\* the extraction, never gives success with the directory removed.
C35_SuccessMeansMounted ==
  [][ (Ran("mount") /\ last'.ok) => dir'.kind = "dir" ]_vars

\* C36: no unmount loses data silently: whenever unmount reports success on
\* a directory with at least one tracked file, the archive afterwards holds
\* one entry for each tracked file the directory had just before it was
\* deleted, under the same path and decrypting, with the stored password,
\* to the same bytes.  Checked where it matters most: no step of the unmount
\* fails, and the user has edited the directory since it was mounted.
C36_NoSilentLoss ==
  [][ ( /\ Ran("unmount") /\ last'.ok /\ last'.fault = "none"
        /\ ~last'.unedited
        /\ dir.kind = "dir" /\ tracked(dir.files) # {} )
        => /\ archive'.kind = "package"
           /\ Mounted(archive', cred').ok
           /\ TrackedTree(Mounted(archive', cred').dir.files)
                = TrackedTree(dir.files) ]_vars

\* C38: after an unmount that reports success, has removed a directory and
\* leaves an archive, the archive is encrypted under the password the
\* credential store holds at that moment, so that the next mount with the
\* stored credential gives the files back.  Checked for the plainest case:
\* no step of the unmount fails, and the directory held what the archive
\* holds under the password it was written with.
C38_SealedUnderStored ==
  [][ ( /\ Ran("unmount") /\ last'.ok /\ last'.fault = "none"
        /\ dir.kind = "dir" /\ archive.kind = "package"
        /\ TrackedTree(dir.files)
             = TrackedTree(Mounted(archive, archive.sealed).dir.files)
        /\ archive'.kind = "package" )
        => (cred' # NoCred /\ archive'.sealed = cred') ]_vars

\* C39: change-password leaves no decrypted secrets on disk: after
\* change_password returns, on success and on every failure branch, the
\* plaintext directory does not exist.  Checked for a change that started
\* with no plaintext directory.
C39_ChangeLeavesNothing ==
  [][ (Ran("change") /\ dir.kind = "absent") => dir'.kind = "absent" ]_vars

====
